---- MODULE Spec2Model ----
(***************************************************************************)
(* RouteLink (src/app.py): routes offered on calendar dates and the riders *)
(* ("links") who join them, kept in an SQLite store.                       *)
(*                                                                         *)
(* Text values on which the code computes (lower, strip, upper, isdigit,   *)
(* len, base-36 formatting) are sequences of one-character strings; text   *)
(* values the code only compares or parses as a whole (dates, times,       *)
(* names) are strings.  SQL NULL / Python None is NULL for integer         *)
(* columns, the empty sequence or the empty string for absent text.        *)
(***************************************************************************)
EXTENDS Integers, Sequences, FiniteSets, TLC

VARIABLES
    db,         \* the committed content of routelink.db
    session,    \* the caller's Flask session: session.get("user_id")
    fetched,    \* the label the client's last request, a GET /next_slot, returned
    prev_slot,  \* the label fetched right before the last route was created
    pc,         \* per concurrent request: where its handler stands
    req,        \* per concurrent request: the arguments it was called with
    out,        \* per concurrent request: the response it returned
    published   \* the events handed to the connected observers, in order

vars == <<db, session, fetched, prev_slot, pc, req, out, published>>

-----------------------------------------------------------------------------
(* Bounds of the model *)

\* routes ever inserted, and rows (routes and links) ever inserted
MaxRoutes == 2
MaxRows == 3

-----------------------------------------------------------------------------
(* Values *)

NULL == 0
NoSession == 0
NoText == "<None>"

Procs == {"r1", "r2"}

\* date.today(), as the ordinal strptime_date gives the date strings below
Today == 1

D_PAST == "2026-11-04"
D_TODAY == "2026-11-05"
D_NEXT == "2026-11-06"
D_BAD == "06/11/2026"

T_8 == "08:00"
T_BAD == "8am"

LIB == <<"L", "i", "b">>
LIB_UP == <<"L", "I", "B">>
LIB_PAD == <<" ", "l", "i", "b", " ">>
MALL == <<"M", "a", "l", "l">>
BUS == <<"b", "u", "s">>
BUS_UP == <<"B", "U", "S">>

PHONE_A == <<"9", "9", "9", "8", "8", "8", "7">>
PHONE_B == <<"9", "9", "9", "8", "8", "8", "6">>
PHONE_SHORT == <<"9", "9", "9", "8", "8", "8">>
PHONE_ALPHA == <<"9", "9", "9", "8", "8", "8", "x">>

-----------------------------------------------------------------------------
(* Text functions of Python and SQLite the handlers call *)

UpperCase == <<"A", "B", "C", "D", "E", "F", "G", "H", "I", "J", "K", "L", "M",
               "N", "O", "P", "Q", "R", "S", "T", "U", "V", "W", "X", "Y", "Z">>
LowerCase == <<"a", "b", "c", "d", "e", "f", "g", "h", "i", "j", "k", "l", "m",
               "n", "o", "p", "q", "r", "s", "t", "u", "v", "w", "x", "y", "z">>
DigitChars == {"0", "1", "2", "3", "4", "5", "6", "7", "8", "9"}

Letters == {UpperCase[i] : i \in DOMAIN UpperCase} \cup {LowerCase[i] : i \in DOMAIN LowerCase}

\* the lower-case and upper-case forms of the letters
LowerOf == [c \in Letters |->
              IF \E i \in DOMAIN UpperCase : UpperCase[i] = c
              THEN LowerCase[CHOOSE i \in DOMAIN UpperCase : UpperCase[i] = c]
              ELSE c]
UpperOf == [c \in Letters |->
              IF \E i \in DOMAIN LowerCase : LowerCase[i] = c
              THEN UpperCase[CHOOSE i \in DOMAIN LowerCase : LowerCase[i] = c]
              ELSE c]

lower_char(c) == IF c \in Letters THEN LowerOf[c] ELSE c
upper_char(c) == IF c \in Letters THEN UpperOf[c] ELSE c

\* str.lower()
lower(s) == [i \in DOMAIN s |-> lower_char(s[i])]

\* SQL LOWER(x)
sql_LOWER(s) == [i \in DOMAIN s |-> lower_char(s[i])]

\* str.upper()
upper(s) == [i \in DOMAIN s |-> upper_char(s[i])]

RECURSIVE lstrip(_)
lstrip(s) == IF s # <<>> /\ Head(s) = " " THEN lstrip(Tail(s)) ELSE s

RECURSIVE rstrip(_)
rstrip(s) ==
    IF s # <<>> /\ s[Len(s)] = " " THEN rstrip(SubSeq(s, 1, Len(s) - 1)) ELSE s

\* str.strip()
strip(s) == rstrip(lstrip(s))

\* str.isdigit()
isdigit(s) == s # <<>> /\ \A i \in DOMAIN s : s[i] \in DigitChars

\* str.rjust(width, fill)
rjust(s, width, fill) ==
    IF Len(s) >= width THEN s ELSE [i \in 1..(width - Len(s)) |-> fill] \o s

\* datetime.strptime(d, "%Y-%m-%d").date(): the date's ordinal, or ValueError
ValueError == -1
DateOrdinal == [x \in {D_PAST, D_TODAY, D_NEXT} |->
                  IF x = D_PAST THEN 0 ELSE IF x = D_TODAY THEN 1 ELSE 2]
strptime_date(d) == IF d \in DOMAIN DateOrdinal THEN DateOrdinal[d] ELSE ValueError

\* datetime.strptime(ttime, "%H:%M") succeeds
strptime_time_ok(t) == t \in {T_8}

-----------------------------------------------------------------------------
(* Slot labels *)

Base == 36
SlotWidth == 4
Digits == <<"0", "1", "2", "3", "4", "5", "6", "7", "8", "9">> \o UpperCase

RECURSIVE base36_digits(_)
base36_digits(n) ==
    IF n = 0 THEN <<>>
    ELSE Append(base36_digits(n \div Base), Digits[(n % Base) + 1])

to_base36(n) == IF n = 0 THEN <<"0">> ELSE base36_digits(n)

\* SELECT MAX(id) FROM routes
max_route_id(D) ==
    IF D.routes = {} THEN NULL
    ELSE CHOOSE m \in {r.id : r \in D.routes} : \A r \in D.routes : r.id <= m

\* readable: FALSE when the SELECT raises, and the except branch sets seq = 1
generate_next_slot_no(D, readable) ==
    LET seq == IF readable THEN max_route_id(D) + 1 ELSE 1
    IN  <<"S", "L">> \o rjust(to_base36(seq), SlotWidth, "0")

-----------------------------------------------------------------------------
(* The store *)

EmptyDb ==
    [routes |-> {}, routes_seq |-> 0,
     links |-> {}, links_seq |-> 0,
     calendar |-> {}, calendar_seq |-> 0]

\* as close_db, on a connection that commits each statement as it runs
close_db_autocommit(committed, pending) == pending

\* get_db / close_db: one connection per request, closed at teardown without a
\* commit, which drops whatever the request wrote and did not commit
close_db(committed, pending) == committed

Response(op, status, body) == [op |-> op, status |-> status, body |-> body]
Result(D, op, status, body) == [db |-> D, resp |-> Response(op, status, body)]

NoResponse == Response("none", 0, "")

\* login_required
logged_in(sess) == sess # NoSession

-----------------------------------------------------------------------------
(* POST /routes *)

\* Python truth of a request field: None and "" are false
truthy(x) == x \notin {"", NoText}
truthy_text(s) == s # <<>>

\* x or ""  /  COALESCE(x, '')
or_empty(t) == IF t = NoText THEN "" ELSE t

\* as duplicate_route, the end_point compared without LOWER
duplicate_route_exact(D, b) ==
    \E r \in D.routes, cal \in D.calendar :
        /\ cal.route_id = r.id
        /\ cal.travel_date = b.date
        /\ r.end_point = b.end_point
        /\ or_empty(r.time) = or_empty(b.time)
        /\ sql_LOWER(r.transport_type) = sql_LOWER(b.transport_type)

\* the duplicate check's SELECT ... LIMIT 1 returns a row
duplicate_route(D, b) ==
    \E r \in D.routes, cal \in D.calendar :
        /\ cal.route_id = r.id
        /\ cal.travel_date = b.date
        /\ sql_LOWER(r.end_point) = sql_LOWER(b.end_point)
        /\ or_empty(r.time) = or_empty(b.time)
        /\ sql_LOWER(r.transport_type) = sql_LOWER(b.transport_type)

\* the checks of the request body that come before the store is touched:
\* a response, or NoResponse when the body passes
create_validate(sess, b) ==
    IF ~logged_in(sess) THEN Response("create_route", 401, "Login required")
    ELSE IF ~(truthy(b.date) /\ truthy_text(b.slot_no) /\ truthy_text(b.end_point))
    THEN Response("create_route", 400, "Missing required fields")
    ELSE IF strptime_date(b.date) = ValueError
    THEN Response("create_route", 400, "Invalid date")
    ELSE IF strptime_date(b.date) < Today
    THEN Response("create_route", 400, "Cannot create route for past dates")
    ELSE IF truthy(b.time) /\ ~strptime_time_ok(b.time)
    THEN Response("create_route", 400, "Invalid time")
    ELSE NoResponse

\* the duplicate check passes: it raised (except: pass) or found no row
create_check_passes(D, b, fail) == fail = "select" \/ ~duplicate_route(D, b)

\* the two INSERTs and the commit; fail names the statement that raises
create_insert(D, b, fail) ==
    LET rid == D.routes_seq + 1
        row == [id |-> rid, slot_no |-> b.slot_no, end_point |-> b.end_point,
                major_stops |-> b.major_stops, time |-> b.time,
                transport_type |-> b.transport_type, no_of_people |-> 0]
        D1  == [D EXCEPT !.routes = @ \cup {row}, !.routes_seq = rid]
        cid == D1.calendar_seq + 1
        D2  == [D1 EXCEPT !.calendar = @ \cup {[id |-> cid, travel_date |-> b.date,
                                                 route_id |-> rid, link_id |-> NULL]},
                          !.calendar_seq = cid]
    IN  IF fail = "insert_route"
        THEN Result(close_db(D, D), "create_route", 500, "store error")
        ELSE IF fail = "insert_calendar"
        THEN Result(close_db(D, D1), "create_route", 500, "store error")
        ELSE IF fail = "commit"
        THEN Result(close_db(D, D2), "create_route", 500, "store error")
        ELSE Result(D2, "create_route", 201, rid)

api_create_route(D, sess, b, fail) ==
    IF create_validate(sess, b) # NoResponse
    THEN [db |-> D, resp |-> create_validate(sess, b)]
    ELSE IF ~create_check_passes(D, b, fail)
    THEN Result(D, "create_route", 409, "Duplicate route")
    ELSE create_insert(D, b, fail)

-----------------------------------------------------------------------------
(* DELETE /routes/<rid> *)

api_routes_modify_delete(D, sess, rid, fail) ==
    IF ~logged_in(sess) THEN Result(D, "delete_route", 401, "Login required")
    ELSE LET D1 == [D EXCEPT !.calendar = {c \in @ : c.route_id # rid}]
             D2 == [D1 EXCEPT !.routes = {r \in @ : r.id # rid}]
         IN  IF fail = "delete_calendar"
             THEN Result(close_db(D, D), "delete_route", 500, "store error")
             ELSE IF fail = "delete_routes"
             THEN Result(close_db(D, D1), "delete_route", 500, "store error")
             ELSE IF fail = "commit"
             THEN Result(close_db(D, D2), "delete_route", 500, "store error")
             ELSE Result(D2, "delete_route", 200, "ok")

-----------------------------------------------------------------------------
(* POST /routes/<rid>/join *)

MinPhoneLen == 7

\* SELECT end_point FROM routes WHERE id=? : the rows found (none or one)
route_rows(D, rid) == {r \in D.routes : r.id = rid}

\* as already_joined, the phone compared with the wrong column of links
already_joined_wrong_column(D, d, rid, phone) ==
    \E l \in D.links, cal \in D.calendar :
        /\ cal.link_id = l.id
        /\ cal.travel_date = d
        /\ cal.route_id = rid
        /\ l.drop_point = phone

\* the duplicate check's SELECT returns a row
already_joined(D, d, rid, phone) ==
    \E l \in D.links, cal \in D.calendar :
        /\ cal.link_id = l.id
        /\ cal.travel_date = d
        /\ cal.route_id = rid
        /\ l.phone = phone

\* the route has an end_point and the drop does not match it
drop_mismatch(r, drop) ==
    truthy_text(r.end_point) /\ lower(strip(r.end_point)) # lower(strip(drop))

\* the checks of the request body that come before the store is touched
join_validate(sess, b) ==
    LET gender == upper(b.gender)
    IN  IF ~logged_in(sess) THEN Response("join_route", 401, "Login required")
        ELSE IF ~(/\ truthy(b.date) /\ truthy(b.name) /\ truthy_text(gender)
                  /\ truthy_text(b.drop) /\ truthy_text(b.phone)
                  /\ truthy(b.course_year) /\ truthy(b.branch))
        THEN Response("join_route", 400, "Missing fields")
        ELSE IF gender \notin {<<"M">>, <<"F">>}
        THEN Response("join_route", 400, "Invalid gender")
        ELSE IF ~isdigit(b.phone) \/ Len(b.phone) < MinPhoneLen
        THEN Response("join_route", 400, "Invalid phone")
        ELSE IF strptime_date(b.date) = ValueError
        THEN Response("join_route", 400, "Invalid date")
        ELSE IF strptime_date(b.date) < Today
        THEN Response("join_route", 400, "Cannot join for past dates")
        ELSE NoResponse

\* as join_check, the duplicate check made before the drop is compared
join_check_duplicate_first(D, rid, b, fail) ==
    IF fail = "select_route" THEN Response("join_route", 500, "store error")
    ELSE IF fail = "select_dup" THEN Response("join_route", 500, "store error")
    ELSE IF already_joined(D, b.date, rid, b.phone)
    THEN Response("join_route", 409, "Already joined")
    ELSE IF \E r \in route_rows(D, rid) : drop_mismatch(r, b.drop)
    THEN Response("join_route", 400,
                  <<"Drop must match route endpoint",
                    (CHOOSE r \in route_rows(D, rid) : TRUE).end_point>>)
    ELSE NoResponse

\* the two SELECTs before the INSERTs: the route's end_point against the drop,
\* then the duplicate check.  Neither is inside a try: a SELECT that raises
\* ends the request with a 500.
join_check(D, rid, b, fail) ==
    IF fail = "select_route" THEN Response("join_route", 500, "store error")
    ELSE IF \E r \in route_rows(D, rid) : drop_mismatch(r, b.drop)
    THEN Response("join_route", 400,
                  <<"Drop must match route endpoint",
                    (CHOOSE r \in route_rows(D, rid) : TRUE).end_point>>)
    ELSE IF fail = "select_dup" THEN Response("join_route", 500, "store error")
    ELSE IF already_joined(D, b.date, rid, b.phone)
    THEN Response("join_route", 409, "Already joined")
    ELSE NoResponse

\* as join_insert, the association row inserted without the new rider's id
join_insert_no_rider(D, rid, b, fail) ==
    LET lid == D.links_seq + 1
        row == [id |-> lid, name |-> b.name,
                gender |-> IF fail = "insert_link" THEN <<>> ELSE upper(b.gender),
                drop_point |-> b.drop, phone |-> b.phone,
                course_year |-> b.course_year, branch |-> b.branch]
        D1  == [D EXCEPT !.links = @ \cup {row}, !.links_seq = lid]
        cid == D1.calendar_seq + 1
        D2  == [D1 EXCEPT !.calendar = @ \cup {[id |-> cid, travel_date |-> b.date,
                                                 route_id |-> rid, link_id |-> NULL]},
                          !.calendar_seq = cid]
    IN  IF fail = "insert_link_both"
        THEN Result(close_db(D, D), "join_route", 500, "store error")
        ELSE IF fail = "insert_calendar"
        THEN Result(close_db(D, D1), "join_route", 500, "store error")
        ELSE IF fail = "commit"
        THEN Result(close_db(D, D2), "join_route", 500, "store error")
        ELSE Result(D2, "join_route", 201, lid)

\* the INSERT into links (with its fallback without the gender column), the
\* INSERT into calendar and the commit; fail names the statement that raises
join_insert(D, rid, b, fail) ==
    LET lid == D.links_seq + 1
        row == [id |-> lid, name |-> b.name,
                gender |-> IF fail = "insert_link" THEN <<>> ELSE upper(b.gender),
                drop_point |-> b.drop, phone |-> b.phone,
                course_year |-> b.course_year, branch |-> b.branch]
        D1  == [D EXCEPT !.links = @ \cup {row}, !.links_seq = lid]
        cid == D1.calendar_seq + 1
        D2  == [D1 EXCEPT !.calendar = @ \cup {[id |-> cid, travel_date |-> b.date,
                                                 route_id |-> rid, link_id |-> lid]},
                          !.calendar_seq = cid]
    IN  IF fail = "insert_link_both"
        THEN Result(close_db(D, D), "join_route", 500, "store error")
        ELSE IF fail = "insert_calendar"
        THEN Result(close_db(D, D1), "join_route", 500, "store error")
        ELSE IF fail = "commit"
        THEN Result(close_db(D, D2), "join_route", 500, "store error")
        ELSE Result(D2, "join_route", 201, lid)

api_join_route(D, sess, rid, b, fail) ==
    IF join_validate(sess, b) # NoResponse
    THEN [db |-> D, resp |-> join_validate(sess, b)]
    ELSE IF join_check(D, rid, b, fail) # NoResponse
    THEN [db |-> close_db(D, D), resp |-> join_check(D, rid, b, fail)]
    ELSE join_insert(D, rid, b, fail)

-----------------------------------------------------------------------------
(* DELETE /links/<lid> *)

api_links_modify_delete(D, sess, lid, fail) ==
    IF ~logged_in(sess) THEN Result(D, "delete_link", 401, "Login required")
    ELSE LET D1 == [D EXCEPT !.calendar =
                        {c \in @ : ~(c.link_id # NULL /\ c.link_id = lid)}]
             D2 == [D1 EXCEPT !.links = {l \in @ : l.id # lid}]
         IN  IF fail = "delete_calendar"
             THEN Result(close_db(D, D), "delete_link", 500, "store error")
             ELSE IF fail = "delete_links"
             THEN Result(close_db(D, D1), "delete_link", 500, "store error")
             ELSE IF fail = "commit"
             THEN Result(close_db(D, D2), "delete_link", 500, "store error")
             ELSE Result(D2, "delete_link", 200, "ok")

-----------------------------------------------------------------------------
(* GET /route_count and GET /routes/<rid>/links *)

\* the link rows of a JOIN's result (pairs of a link row and a calendar row),
\* ORDER BY l.id DESC
RECURSIVE order_by_id_desc(_)
order_by_id_desc(pairs) ==
    IF pairs = {} THEN <<>>
    ELSE LET top == CHOOSE x \in pairs : \A y \in pairs :
                        \/ y[1].id < x[1].id
                        \/ (y[1].id = x[1].id /\ y[2].id <= x[2].id)
         IN  <<top[1]>> \o order_by_id_desc(pairs \ {top})

\* as api_route_count, the placeholder rows counted as well
api_route_count_all_rows(D, iso, rid, readable) ==
    IF ~truthy(iso) \/ rid = NULL THEN 0
    ELSE IF ~readable THEN 0
    ELSE Cardinality({c \in D.calendar : c.travel_date = iso /\ c.route_id = rid})

\* iso and rid are the query parameters, "" and NULL when absent; readable is
\* FALSE when the SELECT raises
api_route_count(D, iso, rid, readable) ==
    IF ~truthy(iso) \/ rid = NULL THEN 0
    ELSE IF ~readable THEN 0
    ELSE Cardinality({c \in D.calendar :
                        c.travel_date = iso /\ c.route_id = rid /\ c.link_id # NULL})

\* the response's list: one entry per calendar row that joins a link
api_routes_links(D, rid, iso) ==
    IF ~truthy(iso) THEN <<>>
    ELSE order_by_id_desc({<<l, c>> \in D.links \X D.calendar :
            c.link_id = l.id /\ c.route_id = rid /\ c.travel_date = iso})

-----------------------------------------------------------------------------
(* GET /next_slot *)

api_next_slot(D, readable) ==
    Response("next_slot", 200, generate_next_slot_no(D, readable))

-----------------------------------------------------------------------------
(* PUT/PATCH /routes/<rid> *)

RouteColumns == {"slot_no", "end_point", "major_stops", "time", "transport_type"}

\* {k: data[k] for k in allowed if k in data}; data is the request's JSON
\* object, a function from its keys to their values
route_updates(data) == [k \in (DOMAIN data) \cap RouteColumns |-> data[k]]

\* UPDATE t SET col=?, ... WHERE id=? on the rows of one table
sql_UPDATE(rows, updates, id) ==
    { IF r.id = id
      THEN [col \in DOMAIN r |-> IF col \in DOMAIN updates THEN updates[col] ELSE r[col]]
      ELSE r : r \in rows }

api_routes_modify_update(D, sess, rid, data, fail) ==
    IF ~logged_in(sess) THEN Result(D, "update_route", 401, "Login required")
    ELSE IF DOMAIN route_updates(data) = {}
    THEN Result(D, "update_route", 400, "No fields")
    ELSE LET D1 == [D EXCEPT !.routes = sql_UPDATE(@, route_updates(data), rid)]
         IN  IF fail = "update"
             THEN Result(close_db(D, D), "update_route", 500, "store error")
             ELSE IF fail = "commit"
             THEN Result(close_db(D, D1), "update_route", 500, "store error")
             ELSE Result(D1, "update_route", 200, "ok")

-----------------------------------------------------------------------------
(* PUT/PATCH /links/<lid> *)

\* the request keys that may be updated, and the column each one sets
LinkColumnOf ==
    [name |-> "name", gender |-> "gender", drop |-> "drop_point", phone |-> "phone",
     course_year |-> "course_year", branch |-> "branch"]

link_updates(data) ==
    [col \in {LinkColumnOf[k] : k \in (DOMAIN data) \cap (DOMAIN LinkColumnOf)} |->
        data[CHOOSE k \in (DOMAIN data) \cap (DOMAIN LinkColumnOf) : LinkColumnOf[k] = col]]

api_links_modify_update(D, sess, lid, data, fail) ==
    IF ~logged_in(sess) THEN Result(D, "update_link", 401, "Login required")
    ELSE IF DOMAIN link_updates(data) = {}
    THEN Result(D, "update_link", 400, "No fields")
    ELSE LET D1 == [D EXCEPT !.links = sql_UPDATE(@, link_updates(data), lid)]
         IN  IF fail = "update"
             THEN Result(close_db(D, D), "update_link", 500, "store error")
             ELSE IF fail = "commit"
             THEN Result(close_db(D, D1), "update_link", 500, "store error")
             ELSE Result(D1, "update_link", 200, "ok")

-----------------------------------------------------------------------------
(* GET /calendar/<iso_date> *)

\* the columns of a calendar row's route, or all NULL when the LEFT JOIN finds
\* no route with the row's route_id
NullRoute ==
    [id |-> NULL, slot_no |-> <<>>, end_point |-> <<>>, major_stops |-> NoText,
     time |-> NoText, transport_type |-> <<>>]

left_join_route(D, cal) ==
    IF route_rows(D, cal.route_id) = {} THEN NullRoute
    ELSE LET r == CHOOSE r \in route_rows(D, cal.route_id) : TRUE
         IN  [id |-> r.id, slot_no |-> r.slot_no, end_point |-> r.end_point,
              major_stops |-> r.major_stops, time |-> r.time,
              transport_type |-> r.transport_type]

\* ORDER BY r.id DESC; SQLite sorts NULL below every integer
RECURSIVE order_by_route_id_desc(_)
order_by_route_id_desc(rows) ==
    IF rows = {} THEN <<>>
    ELSE LET top == CHOOSE x \in rows : \A y \in rows : y.id <= x.id
         IN  <<top>> \o order_by_route_id_desc(rows \ {top})

\* SELECT DISTINCT: the set of the joined rows; readable is FALSE when the
\* SELECT raises
api_calendar_for_date(D, iso, readable) ==
    IF ~readable THEN Response("calendar", 500, <<>>)
    ELSE Response("calendar", 200,
            order_by_route_id_desc({left_join_route(D, c) :
                                      c \in {x \in D.calendar : x.travel_date = iso}}))

-----------------------------------------------------------------------------
(* POST /login *)

\* the rows of users (id, name) that /register stored before the run
Users == <<[id |-> 1, name |-> <<"a", "s", "h", "a">>],
           [id |-> 2, name |-> <<"R", "a", "v", "i">>]>>

\* session["user_name"], set from the user's row at login
session_user_name(sess) == IF sess = NoSession THEN <<>> ELSE Users[sess].name

-----------------------------------------------------------------------------
(* Requests *)

CreateFailures == {"none", "select", "insert_route", "insert_calendar", "commit"}
DeleteFailures == {"none", "delete_calendar", "delete_routes", "commit"}

STOPS == "Gate 1, Main Rd"
STALE_SLOT == <<"S", "L", "0", "0", "0", "1">>

CreateBody(d, slot, endp, t, tt) ==
    [date |-> d, slot_no |-> slot, end_point |-> endp, major_stops |-> STOPS,
     time |-> t, transport_type |-> tt]

\* the slot_no a client posts: the label it has just fetched, or one it kept
SlotChoice == IF fetched # <<>> THEN fetched ELSE STALE_SLOT

\* bodies that differ from a valid one in one field
CreateBodiesInvalid ==
    { CreateBody("", STALE_SLOT, LIB, T_8, BUS),
      CreateBody(D_TODAY, <<>>, LIB, T_8, BUS),
      CreateBody(D_TODAY, STALE_SLOT, <<>>, T_8, BUS),
      CreateBody(D_BAD, STALE_SLOT, LIB, T_8, BUS),
      CreateBody(D_PAST, STALE_SLOT, LIB, T_8, BUS),
      CreateBody(D_TODAY, STALE_SLOT, LIB, T_BAD, BUS) }

\* destination and mode, as two clients spell them
Offers == {<<LIB, BUS>>, <<LIB_UP, BUS_UP>>}

CreateBodiesFull(slot) ==
    { CreateBody(d, slot, o[1], t, o[2]) :
        d \in {D_TODAY, D_NEXT}, o \in Offers, t \in {NoText, T_8} }
    \cup CreateBodiesInvalid

CreateBodiesLite(slot) ==
    { CreateBody(d, slot, LIB, T_8, BUS) : d \in {D_TODAY, D_NEXT} }
    \cup CreateBodiesInvalid

JoinFailures == {"none", "select_route", "select_dup", "insert_link",
                 "insert_link_both", "insert_calendar", "commit"}
LinkDeleteFailures == {"none", "delete_calendar", "delete_links", "commit"}

JoinBody(d, name, gender, drop, phone) ==
    [date |-> d, name |-> name, gender |-> gender, drop |-> drop, phone |-> phone,
     course_year |-> "2", branch |-> "CSE"]

\* bodies that differ from a valid one in one field
JoinBodiesInvalid ==
    { JoinBody("", "Asha", <<"f">>, LIB, PHONE_A),
      JoinBody(D_TODAY, "", <<"f">>, LIB, PHONE_A),
      JoinBody(D_TODAY, "Asha", <<>>, LIB, PHONE_A),
      JoinBody(D_TODAY, "Asha", <<"x">>, LIB, PHONE_A),
      JoinBody(D_TODAY, "Asha", <<"f">>, <<>>, PHONE_A),
      JoinBody(D_TODAY, "Asha", <<"f">>, LIB, PHONE_SHORT),
      JoinBody(D_TODAY, "Asha", <<"f">>, LIB, PHONE_ALPHA),
      JoinBody(D_BAD, "Asha", <<"f">>, LIB, PHONE_A),
      JoinBody(D_PAST, "Asha", <<"f">>, LIB, PHONE_A) }

JoinBodies ==
    { JoinBody(d, "Asha", <<"f">>, drop, ph) :
        d \in {D_TODAY, D_NEXT}, drop \in {LIB_PAD, MALL}, ph \in {PHONE_A, PHONE_B} }
    \cup JoinBodiesInvalid

\* the joins the riders of a sequential run send: two riders for today's drop,
\* one rider for another drop, one rider for the next day
JoinBodiesSent ==
    { JoinBody(D_TODAY, "Asha", <<"f">>, LIB_PAD, PHONE_A),
      JoinBody(D_TODAY, "Asha", <<"f">>, LIB_PAD, PHONE_B),
      JoinBody(D_TODAY, "Asha", <<"f">>, MALL, PHONE_A),
      JoinBody(D_NEXT, "Asha", <<"f">>, LIB_PAD, PHONE_A) }
    \cup JoinBodiesInvalid

-----------------------------------------------------------------------------
(* Sequential requests: each handler runs from its first statement to its
   response before the next request arrives *)

\* no handler hands anything to an observer: each ends at its return statement
ConcUnchanged == UNCHANGED <<pc, req, out, published>>

InBounds(D) == D.routes_seq <= MaxRoutes /\ D.routes_seq + D.links_seq <= MaxRows

CreateRoute(bodies) ==
    \E b \in bodies :
    \E fail \in IF create_validate(session, b) = NoResponse THEN CreateFailures ELSE {"none"} :
        LET r == api_create_route(db, session, b, fail)
        IN  /\ InBounds(r.db)
            /\ db' = r.db
            /\ prev_slot' = IF r.resp.status = 201 /\ fetched # <<>>
                            THEN fetched ELSE prev_slot
            /\ fetched' = <<>>
            /\ UNCHANGED session
            /\ ConcUnchanged

DeleteRoute ==
    \E rid \in 1..MaxRoutes, fail \in DeleteFailures :
        LET r == api_routes_modify_delete(db, session, rid, fail)
        IN  /\ db' = r.db
            /\ fetched' = <<>>
            /\ UNCHANGED <<session, prev_slot>>
            /\ ConcUnchanged

NextSlot(reads) ==
    \E readable \in reads :
        /\ fetched' = api_next_slot(db, readable).body
        /\ UNCHANGED <<db, session, prev_slot>>
        /\ ConcUnchanged

JoinRoute(fails) ==
    \E rid \in 1..db.routes_seq, b \in JoinBodiesSent :
    \E fail \in IF join_validate(session, b) = NoResponse THEN fails ELSE {"none"} :
        LET r == api_join_route(db, session, rid, b, fail)
        IN  /\ InBounds(r.db)
            /\ db' = r.db
            /\ fetched' = <<>>
            /\ UNCHANGED <<session, prev_slot>>
            /\ ConcUnchanged

DeleteLink ==
    \E lid \in 1..MaxRows, fail \in LinkDeleteFailures :
        LET r == api_links_modify_delete(db, session, lid, fail)
        IN  /\ db' = r.db
            /\ fetched' = <<>>
            /\ UNCHANGED <<session, prev_slot>>
            /\ ConcUnchanged

-----------------------------------------------------------------------------
(* Concurrent requests.  Each request has its own connection (get_db).  Its
   SELECTs run outside any transaction and read what is committed; its first
   INSERT opens the transaction, which holds the store's write lock until the
   commit, so the INSERTs and the commit of one request are one step for every
   other request, and a request's handler is two steps: its checks, then its
   writes. *)

ConcCreateBodies ==
    { CreateBody(D_TODAY, STALE_SLOT, o[1], T_8, o[2]) : o \in Offers }
    \cup { CreateBody(D_PAST, STALE_SLOT, LIB, T_8, BUS) }

ConcJoinBodies ==
    { JoinBody(D_TODAY, "Asha", <<"f">>, drop, PHONE_A) : drop \in {LIB_PAD, MALL} }

ConcFailures == {"none", "commit"}

Request(op, rid, b) == [op |-> op, rid |-> rid, body |-> b]

\* rows the requests now between their checks and their writes will insert
Writing(step) == Cardinality({p \in Procs : pc[p] = step})

Free(p) == pc[p] = "idle"

Respond(p, r) ==
    /\ out' = [out EXCEPT ![p] = r]
    /\ pc' = [pc EXCEPT ![p] = "idle"]

CreateCheck(p) ==
    /\ Free(p)
    /\ db.routes_seq + Writing("create_insert") < MaxRoutes
    /\ db.routes_seq + db.links_seq + Writing("create_insert") + Writing("join_insert") < MaxRows
    /\ \E b \in ConcCreateBodies :
        /\ req' = [req EXCEPT ![p] = Request("create_route", NULL, b)]
        /\ IF create_validate(session, b) # NoResponse
           THEN Respond(p, create_validate(session, b))
           ELSE IF ~create_check_passes(db, b, "none")
           THEN Respond(p, Response("create_route", 409, "Duplicate route"))
           ELSE /\ pc' = [pc EXCEPT ![p] = "create_insert"]
                /\ out' = [out EXCEPT ![p] = NoResponse]
    /\ UNCHANGED <<db, session, fetched, prev_slot, published>>

CreateWrite(p) ==
    /\ pc[p] = "create_insert"
    /\ \E fail \in ConcFailures :
        LET r == create_insert(db, req[p].body, fail)
        IN  /\ db' = r.db
            /\ Respond(p, r.resp)
    /\ UNCHANGED <<session, fetched, prev_slot, req, published>>

JoinCheck(p) ==
    /\ Free(p)
    /\ db.routes_seq + db.links_seq + Writing("create_insert") + Writing("join_insert") < MaxRows
    /\ \E rid \in 1..db.routes_seq, b \in ConcJoinBodies :
        /\ req' = [req EXCEPT ![p] = Request("join_route", rid, b)]
        /\ IF join_validate(session, b) # NoResponse
           THEN Respond(p, join_validate(session, b))
           ELSE IF join_check(db, rid, b, "none") # NoResponse
           THEN Respond(p, join_check(db, rid, b, "none"))
           ELSE /\ pc' = [pc EXCEPT ![p] = "join_insert"]
                /\ out' = [out EXCEPT ![p] = NoResponse]
    /\ UNCHANGED <<db, session, fetched, prev_slot, published>>

JoinWrite(p) ==
    /\ pc[p] = "join_insert"
    /\ \E fail \in ConcFailures :
        LET r == join_insert(db, req[p].rid, req[p].body, fail)
        IN  /\ db' = r.db
            /\ Respond(p, r.resp)
    /\ UNCHANGED <<session, fetched, prev_slot, req, published>>

Init ==
    /\ db = EmptyDb
    /\ session \in {NoSession, 1}
    /\ fetched = <<>>
    /\ prev_slot = <<>>
    /\ pc = [p \in Procs |-> "idle"]
    /\ req = [p \in Procs |-> <<>>]
    /\ out = [p \in Procs |-> NoResponse]
    /\ published = <<>>

NextRoutes ==
    \/ CreateRoute(CreateBodiesFull(SlotChoice))
    \/ DeleteRoute
    \/ NextSlot({TRUE})

SpecRoutes == Init /\ [][NextRoutes]_vars

NextRiders ==
    \/ CreateRoute(CreateBodiesLite(SlotChoice))
    \/ JoinRoute(JoinFailures)
    \/ DeleteLink
    \/ DeleteRoute

SpecRiders == Init /\ [][NextRiders]_vars

NextConc ==
    \E p \in Procs :
        \/ CreateCheck(p)
        \/ CreateWrite(p)
        \/ JoinCheck(p)
        \/ JoinWrite(p)

SpecConc == Init /\ [][NextConc]_vars

-----------------------------------------------------------------------------
(* Updates, and the specifications that have them *)

UpdateFailures == {"none", "update", "commit"}

\* JSON objects a client sends to PUT /routes/<rid>: a new time, a new label,
\* another spelling of the destination, and one with no column of routes
RouteUpdateBodies ==
    { [time |-> T_8],
      [slot_no |-> STALE_SLOT],
      [end_point |-> LIB_UP, transport_type |-> BUS_UP],
      [no_of_people |-> 5] }

\* JSON objects a client sends to PUT /links/<lid>
LinkUpdateBodies ==
    { [phone |-> PHONE_A],
      [name |-> "Ravi", drop |-> MALL],
      [id |-> 9] }

UpdateRoute ==
    \E rid \in 1..MaxRoutes, data \in RouteUpdateBodies, fail \in UpdateFailures :
        LET r == api_routes_modify_update(db, session, rid, data, fail)
        IN  /\ db' = r.db
            /\ fetched' = <<>>
            /\ UNCHANGED <<session, prev_slot>>
            /\ ConcUnchanged

UpdateLink ==
    \E lid \in 1..MaxRows, data \in LinkUpdateBodies, fail \in UpdateFailures :
        LET r == api_links_modify_update(db, session, lid, data, fail)
        IN  /\ db' = r.db
            /\ fetched' = <<>>
            /\ UNCHANGED <<session, prev_slot>>
            /\ ConcUnchanged

\* POST /routes, with the statements that may raise given
CreateRouteFailing(bodies, fails) ==
    \E b \in bodies :
    \E fail \in IF create_validate(session, b) = NoResponse THEN fails ELSE {"none"} :
        LET r == api_create_route(db, session, b, fail)
        IN  /\ InBounds(r.db)
            /\ db' = r.db
            /\ prev_slot' = IF r.resp.status = 201 /\ fetched # <<>>
                            THEN fetched ELSE prev_slot
            /\ fetched' = <<>>
            /\ UNCHANGED session
            /\ ConcUnchanged

\* the route catalogue: every SELECT of the duplicate check succeeds
NextCatalog ==
    \/ CreateRouteFailing(CreateBodiesFull(SlotChoice), CreateFailures \ {"select"})
    \/ UpdateRoute
    \/ DeleteRoute
    \/ NextSlot({TRUE, FALSE})

SpecCatalog == Init /\ [][NextCatalog]_vars

\* riders joining, changing and leaving
NextLinks ==
    \/ CreateRoute(CreateBodiesLite(SlotChoice))
    \/ JoinRoute({"none", "commit"})
    \/ UpdateLink
    \/ DeleteLink
    \/ DeleteRoute

SpecLinks == Init /\ [][NextLinks]_vars

-----------------------------------------------------------------------------
(* Properties *)

\* the request bodies a client may post in the current state
CreateInputs ==
    CreateBodiesFull(STALE_SLOT) \cup CreateBodiesFull(generate_next_slot_no(db, TRUE))
JoinInputs == JoinBodies
RouteIds == 1..(MaxRoutes + 1)

\* two route offers are the same: same date and time, same destination and
\* mode up to letter case
SameOffer(a, b) ==
    /\ a.date = b.date
    /\ a.time = b.time
    /\ lower(a.end_point) = lower(b.end_point)
    /\ lower(a.transport_type) = lower(b.transport_type)

\* the stored routes that carry offer b and have a placeholder row for its date
RoutesOffering(D, b) ==
    {r \in D.routes :
        /\ SameOffer([date |-> b.date, time |-> r.time, end_point |-> r.end_point,
                      transport_type |-> r.transport_type], b)
        /\ \E c \in D.calendar :
              c.route_id = r.id /\ c.travel_date = b.date /\ c.link_id = NULL}

\* C1: from every reachable state, when a create_route call succeeds and a
\* second valid call with the same offer follows it (no store failure in either), the
\* second is refused with 409 "Duplicate route", writes nothing, and exactly
\* one stored route with a placeholder for that date carries the offer.
C1_SecondCreateIsDuplicate ==
    \A b1 \in CreateInputs, b2 \in CreateInputs :
        SameOffer(b1, b2) =>
            LET r1 == api_create_route(db, session, b1, "none")
            IN  (r1.resp.status = 201 /\ create_validate(session, b2) = NoResponse) =>
                    LET r2 == api_create_route(r1.db, session, b2, "none")
                    IN  /\ r2.resp.status = 409
                        /\ r2.resp.body = "Duplicate route"
                        /\ r2.db = r1.db
                        /\ Cardinality(RoutesOffering(r2.db, b1)) = 1

\* a first create_route has stored a route, and the same offer in other letter
\* case is now refused
C1_Witness ==
    \E b \in CreateInputs :
        /\ \E r \in RoutesOffering(db, b) : r.end_point # b.end_point
        /\ api_create_route(db, session, b, "none").resp.status = 409

\* the riders stored for phone ph on route rid and date d, and their rows
RidersOf(D, d, rid, ph) ==
    {l \in D.links :
        l.phone = ph /\ \E c \in D.calendar :
            c.link_id = l.id /\ c.route_id = rid /\ c.travel_date = d}
JoinRowsOf(D, d, rid, ph) ==
    {c \in D.calendar :
        c.route_id = rid /\ c.travel_date = d
        /\ \E l \in D.links : l.id = c.link_id /\ l.phone = ph}

\* C2: from every reachable state, when a join_route call succeeds and a second
\* valid call with the same date, route id and phone follows it (no store
\* failure in either), the second is refused with 409 "Already joined", writes
\* nothing, and exactly one rider and one association row exist for the phone
\* on that route and date.
C2_SecondJoinIsRefused ==
    \A rid \in RouteIds, b1 \in JoinInputs, b2 \in JoinInputs :
        (b1.date = b2.date /\ b1.phone = b2.phone) =>
            LET r1 == api_join_route(db, session, rid, b1, "none")
            IN  (/\ r1.resp.status = 201
                 /\ join_validate(session, b2) = NoResponse
                 /\ ~\E r \in route_rows(db, rid) : drop_mismatch(r, b2.drop)) =>
                    LET r2 == api_join_route(r1.db, session, rid, b2, "none")
                    IN  /\ r2.resp.status = 409
                        /\ r2.resp.body = "Already joined"
                        /\ r2.db = r1.db
                        /\ Cardinality(RidersOf(r2.db, b1.date, rid, b1.phone)) = 1
                        /\ Cardinality(JoinRowsOf(r2.db, b1.date, rid, b1.phone)) = 1

\* a rider has joined an existing route, and the same call is now refused
C2_Witness ==
    \E r \in db.routes, b \in JoinInputs :
        /\ Cardinality(RidersOf(db, b.date, r.id, b.phone)) = 1
        /\ api_join_route(db, session, r.id, b, "none").resp.status = 409

\* two concurrent requests were called for the same join: same route id, date
\* and phone
SameJoin(p, q) ==
    /\ req[p].rid = req[q].rid
    /\ req[p].body.date = req[q].body.date
    /\ req[p].body.phone = req[q].body.phone

\* C3: of the concurrent join_route calls for the same phone, route id and date,
\* no two are past the duplicate check with their INSERTs still to come, and no
\* two return 201 (one succeeds, the others get 409 "Already joined").
C3_OneConcurrentJoinSucceeds ==
    \A p \in Procs : \A q \in Procs \ {p} :
        /\ ~(pc[p] = "join_insert" /\ pc[q] = "join_insert" /\ SameJoin(p, q))
        /\ ~(/\ out[p].op = "join_route" /\ out[p].status = 201
             /\ out[q].op = "join_route" /\ out[q].status = 201
             /\ SameJoin(p, q))

\* C4: of two concurrent create_route calls with the same offer, no two are
\* past the duplicate check with their INSERTs still to come, and no two
\* return 201 (at most one inserts, the other gets 409 "Duplicate route").
C4_OneConcurrentCreateInserts ==
    \A p \in Procs : \A q \in Procs \ {p} :
        /\ ~(/\ pc[p] = "create_insert" /\ pc[q] = "create_insert"
             /\ SameOffer(req[p].body, req[q].body))
        /\ ~(/\ out[p].op = "create_route" /\ out[p].status = 201
             /\ out[q].op = "create_route" /\ out[q].status = 201
             /\ SameOffer(req[p].body, req[q].body))

\* the number a slot label encodes
RECURSIVE base36_value(_)
base36_value(ds) ==
    IF ds = <<>> THEN 0
    ELSE base36_value(SubSeq(ds, 1, Len(ds) - 1)) * Base
         + ((CHOOSE i \in DOMAIN Digits : Digits[i] = ds[Len(ds)]) - 1)
slot_value(label) == base36_value(SubSeq(label, 3, Len(label)))

\* C6: whenever a route is created with the label /next_slot has just
\* returned, that label is greater than the label /next_slot returned right
\* before the previous created route.
C6_SlotsStrictlyIncrease ==
    [][(/\ db'.routes_seq > db.routes_seq
        /\ fetched # <<>>
        /\ prev_slot # <<>>) => slot_value(fetched) > slot_value(prev_slot)]_vars

Dates == {D_TODAY, D_NEXT}

\* C5: the count of a route and date equals the number of riders listed for
\* them (a placeholder row is not counted) and is 0 for a route just created;
\* two successful joins with distinct phones raise it by one each, and removing
\* each of the two riders lowers it by one each.
C5_CountFollowsJoinsAndRemovals ==
    /\ \A d \in Dates, rid \in RouteIds :
          api_route_count(db, d, rid, TRUE) = Len(api_routes_links(db, rid, d))
    /\ \A b \in CreateInputs :
          LET r == api_create_route(db, session, b, "none")
          IN  r.resp.status = 201 => api_route_count(r.db, b.date, r.resp.body, TRUE) = 0
    /\ \A rid \in RouteIds, b1 \in JoinInputs, b2 \in JoinInputs :
          (b1.date = b2.date /\ b1.phone # b2.phone) =>
              LET n  == api_route_count(db, b1.date, rid, TRUE)
                  r1 == api_join_route(db, session, rid, b1, "none")
                  r2 == api_join_route(r1.db, session, rid, b2, "none")
              IN  (r1.resp.status = 201 /\ r2.resp.status = 201) =>
                    LET d1 == api_links_modify_delete(r2.db, session, r1.resp.body, "none")
                        d2 == api_links_modify_delete(d1.db, session, r2.resp.body, "none")
                    IN  /\ api_route_count(r1.db, b1.date, rid, TRUE) = n + 1
                        /\ api_route_count(r2.db, b1.date, rid, TRUE) = n + 2
                        /\ api_route_count(d1.db, b1.date, rid, TRUE) = n + 1
                        /\ api_route_count(d2.db, b1.date, rid, TRUE) = n

\* two riders joined a stored route on one date and one of them was removed:
\* the count is 1 and the route's placeholder row is still there
C5_Witness ==
    \E r \in db.routes, d \in Dates :
        /\ db.links_seq = 2
        /\ Cardinality(db.links) = 1
        /\ api_route_count(db, d, r.id, TRUE) = 1
        /\ \E c \in db.calendar : c.route_id = r.id /\ c.travel_date = d /\ c.link_id = NULL

\* C7: after delete_route of a stored route no association row of it remains,
\* its rider list is empty for every date, and a later join_route on its id is
\* refused and inserts nothing.
C7_DeletedRouteRejectsJoins ==
    \A r \in db.routes :
        LET del == api_routes_modify_delete(db, session, r.id, "none")
        IN  del.resp.status = 200 =>
              /\ \A c \in del.db.calendar : c.route_id # r.id
              /\ \A d \in Dates : api_routes_links(del.db, r.id, d) = <<>>
              /\ \A b \in JoinInputs :
                    LET j == api_join_route(del.db, session, r.id, b, "none")
                    IN  j.resp.status # 201 /\ j.db = del.db

\* C8: a valid join_route on a stored route for a date on which the route has
\* no association row is refused and inserts nothing.
C8_JoinNeedsRouteOnDate ==
    \A r \in db.routes, b \in JoinInputs :
        (/\ join_validate(session, b) = NoResponse
         /\ lower(strip(b.drop)) = lower(strip(r.end_point))
         /\ \A c \in db.calendar : ~(c.route_id = r.id /\ c.travel_date = b.date)) =>
            LET j == api_join_route(db, session, r.id, b, "none")
            IN  j.resp.status # 201 /\ j.db = db

DropMessage(r) == <<"Drop must match route endpoint", r.end_point>>

\* C9 as stated: on a stored route with an end_point, join_route succeeds only
\* with a drop equal to the end_point up to letter case, and any other valid
\* call gets the 400 that carries the end_point and writes nothing.
C9_DropEqualsEndPointIgnoringCase ==
    \A r \in db.routes, b \in JoinInputs :
        truthy_text(r.end_point) =>
            LET j == api_join_route(db, session, r.id, b, "none")
            IN  /\ j.resp.status = 201 => lower(b.drop) = lower(r.end_point)
                /\ (/\ join_validate(session, b) = NoResponse
                    /\ lower(b.drop) # lower(r.end_point)) =>
                      /\ j.resp.status = 400
                      /\ j.resp.body = DropMessage(r)
                      /\ j.db = db

\* C9 as amended: on a stored route with an end_point, join_route succeeds only
\* with a drop equal to the end_point once both are stripped of surrounding
\* blanks and lower-cased; any other valid call, the one of a rider who has
\* already joined included, gets the 400 that carries the end_point and writes
\* nothing.
C9_DropMatchesEndPointTrimmed ==
    \A r \in db.routes, b \in JoinInputs :
        truthy_text(r.end_point) =>
            LET j == api_join_route(db, session, r.id, b, "none")
            IN  /\ j.resp.status = 201 => lower(strip(b.drop)) = lower(strip(r.end_point))
                /\ (/\ join_validate(session, b) = NoResponse
                    /\ lower(strip(b.drop)) # lower(strip(r.end_point))) =>
                      /\ j.resp.status = 400
                      /\ j.resp.body = DropMessage(r)
                      /\ j.db = db

\* a rider has joined a stored route, and the same rider's call with another
\* drop gets the 400 of the drop, not the 409 of the duplicate check
C9_Witness ==
    \E r \in db.routes, b \in JoinInputs :
        /\ RidersOf(db, b.date, r.id, b.phone) # {}
        /\ lower(strip(b.drop)) # lower(strip(r.end_point))
        /\ api_join_route(db, session, r.id, b, "none").resp.status = 400

\* C10: a create_route or join_route call that does not return 201, whatever
\* statement of it the store fails, leaves the store as it was; one that
\* returns 201 has stored the route with its placeholder row, or the rider with
\* its association row.
C10_FailedCallsWriteNothing ==
    /\ \A b \in CreateInputs, fail \in CreateFailures :
          LET r == api_create_route(db, session, b, fail)
          IN  IF r.resp.status # 201 THEN r.db = db
              ELSE \E x \in r.db.routes, c \in r.db.calendar :
                      /\ x.id = r.resp.body /\ x \notin db.routes
                      /\ c.route_id = x.id /\ c.link_id = NULL /\ c.travel_date = b.date
    /\ \A rid \in RouteIds, b \in JoinInputs, fail \in JoinFailures :
          LET r == api_join_route(db, session, rid, b, fail)
          IN  IF r.resp.status # 201 THEN r.db = db
              ELSE \E x \in r.db.links, c \in r.db.calendar :
                      /\ x.id = r.resp.body /\ x \notin db.links
                      /\ c.link_id = x.id /\ c.route_id = rid /\ c.travel_date = b.date

\* a route and a rider are stored, and a call of either kind whose second
\* INSERT the store fails ends with a 500
C10_Witness ==
    /\ db.routes # {} /\ db.links # {}
    /\ \E b \in CreateInputs :
          api_create_route(db, session, b, "insert_calendar").resp.status = 500
    /\ \E r \in db.routes, b \in JoinInputs :
          api_join_route(db, session, r.id, b, "insert_calendar").resp.status = 500

-----------------------------------------------------------------------------
(* Events, authorisation, the sequencer's failure *)

route_created(rid) == [type |-> "route_created", route_id |-> rid]
rider_joined(lid, rid) == [type |-> "rider_joined", rider_id |-> lid, route_id |-> rid]
rider_removed(lid) == [type |-> "rider_removed", rider_id |-> lid]

Published(e) == \E i \in DOMAIN published : published[i] = e

\* C11: every committed create_route, join_route and remove_rider has published
\* its route_created / rider_joined / rider_removed event to the observers, and
\* every published event is about a change that was committed: a call that
\* failed or rolled back has published nothing.
C11_CommittedChangesArePublished ==
    /\ \A rid \in 1..db.routes_seq : Published(route_created(rid))
    /\ \A lid \in 1..db.links_seq :
          /\ \E c \in 1..db.routes_seq : Published(rider_joined(lid, c))
          /\ (\A l \in db.links : l.id # lid) => Published(rider_removed(lid))
    /\ \A i \in DOMAIN published :
          \/ /\ published[i].type = "route_created"
             /\ published[i].route_id \in 1..db.routes_seq
          \/ /\ published[i].type \in {"rider_joined", "rider_removed"}
             /\ published[i].rider_id \in 1..db.links_seq

\* the characters of the names riders are stored under
NameText(n) ==
    CASE n = "Asha" -> <<"A", "s", "h", "a">>
      [] n = "Ravi" -> <<"R", "a", "v", "i">>
      [] OTHER -> <<>>

Callers == {NoSession} \cup DOMAIN Users

\* the caller is logged in under the rider's name, letter case aside
MayRemove(sess, l) ==
    logged_in(sess) /\ lower(session_user_name(sess)) = lower(NameText(l.name))

\* C12: remove_rider deletes the rider and its association rows when the caller
\* is authenticated under a display name equal to the rider's stored name up to
\* letter case; for every other caller the store is unchanged and the call is
\* refused (401 without a session, 403 Forbidden with one).
C12_OnlyTheNamedRiderRemoves ==
    \A sess \in Callers, l \in db.links :
        LET r == api_links_modify_delete(db, sess, l.id, "none")
        IN  IF MayRemove(sess, l)
            THEN /\ r.resp.status = 200
                 /\ l \notin r.db.links
                 /\ \A c \in r.db.calendar : c.link_id # l.id
            ELSE /\ r.db = db
                 /\ r.resp.status = IF logged_in(sess) THEN 403 ELSE 401

\* C13: when the routes table cannot be read, next_slot fails: its response is
\* not a 200 and carries no slot label, in particular none that a stored route
\* carries.
C13_UnreadableCounterFails ==
    LET r == api_next_slot(db, FALSE)
    IN  /\ r.status # 200
        /\ r.body = <<>>
        /\ \A x \in db.routes : x.slot_no # r.body

-----------------------------------------------------------------------------
(* Uniqueness under updates *)

\* C14: in every step of create_route, update_route and delete_route, no two
\* stored routes carry the same slot_no afterwards, a route that stays stored
\* keeps its slot_no, and a new route carries the label the sequencer
\* allocates, not one the caller chose.
C14_SlotsUniqueAndImmutable ==
    [][ /\ \A r1 \in db'.routes, r2 \in db'.routes :
              r1.id # r2.id => r1.slot_no # r2.slot_no
        /\ \A r1 \in db.routes, r2 \in db'.routes :
              r1.id = r2.id => r2.slot_no = r1.slot_no
        /\ \A r2 \in db'.routes :
              (\A r1 \in db.routes : r1.id # r2.id) =>
                  r2.slot_no = generate_next_slot_no(db, TRUE) ]_vars

\* the dates a route is associated with
DatesOf(D, rid) == {c.travel_date : c \in {x \in D.calendar : x.route_id = rid}}

\* C15: no two distinct stored routes associated with the same date share
\* (end_point, time, transport_type), end_point and transport_type compared
\* without regard to letter case.
C15_OffersUniquePerDate ==
    \A r1 \in db.routes, r2 \in db.routes :
        (r1.id # r2.id /\ DatesOf(db, r1.id) \cap DatesOf(db, r2.id) # {}) =>
            ~ /\ lower(r1.end_point) = lower(r2.end_point)
              /\ or_empty(r1.time) = or_empty(r2.time)
              /\ lower(r1.transport_type) = lower(r2.transport_type)

\* the phones of the riders joined to a route on a date, one per association row
PhonesOf(D, d, rid) ==
    {<<c.id, l.phone>> : <<c, l>> \in
        {x \in D.calendar \X D.links :
            x[1].travel_date = d /\ x[1].route_id = rid /\ x[1].link_id = x[2].id}}

\* C16: no two association rows of the same date and route reference riders
\* with the same phone.
C16_PhonesUniquePerRouteDate ==
    \A d \in Dates, rid \in RouteIds :
        \A x \in PhonesOf(db, d, rid), y \in PhonesOf(db, d, rid) :
            x[1] # y[1] => x[2] # y[2]

-----------------------------------------------------------------------------
(* Placeholder rows *)

\* the association rows without a rider
Placeholders(D) == {c \in D.calendar : c.link_id = NULL}

LinkIds == 0..(MaxRows + 1)

\* C17: for each date and route id at most one association row has no rider;
\* whatever a join_route call is given and whichever of its statements fails,
\* the rows it adds all reference a rider; and a remove_rider call, for any id
\* in its URL, leaves the rows without a rider as they were.
C17_OnePlaceholderPerRouteDate ==
    /\ \A c1 \in Placeholders(db), c2 \in Placeholders(db) :
          (c1.travel_date = c2.travel_date /\ c1.route_id = c2.route_id) => c1 = c2
    /\ \A rid \in RouteIds, b \in JoinInputs, fail \in JoinFailures :
          \A c \in api_join_route(db, session, rid, b, fail).db.calendar \ db.calendar :
              c.link_id # NULL
    /\ \A lid \in LinkIds, fail \in LinkDeleteFailures :
          Placeholders(api_links_modify_delete(db, session, lid, fail).db)
              = Placeholders(db)

\* a route has its placeholder row and a rider's row for the same date, and a
\* rider has been removed
C17_Witness ==
    /\ \E c0 \in Placeholders(db), c1 \in db.calendar \ Placeholders(db) :
          c0.travel_date = c1.travel_date /\ c0.route_id = c1.route_id
    /\ Cardinality(db.links) < db.links_seq
    /\ \E l \in db.links :
          api_links_modify_delete(db, session, l.id, "none").resp.status = 200

-----------------------------------------------------------------------------
(* The date's list, references between the tables, the duplicate check's read *)

\* a route as an entry of the list
RouteEntry(r) ==
    [id |-> r.id, slot_no |-> r.slot_no, end_point |-> r.end_point,
     major_stops |-> r.major_stops, time |-> r.time,
     transport_type |-> r.transport_type]

\* the stored routes with at least one association row for date d
Scheduled(D, d) == {r \in D.routes : d \in DatesOf(D, r.id)}

\* C18: list_routes_for_date(d) returns the stored routes that have an
\* association row for d and nothing else, each once however many riders
\* joined it, in descending order of route id.
C18_ListIsTheRoutesOfTheDate ==
    \A d \in Dates :
        LET L == api_calendar_for_date(db, d, TRUE).body
        IN  /\ \A i \in DOMAIN L : \E r \in Scheduled(db, d) : L[i] = RouteEntry(r)
            /\ \A r \in Scheduled(db, d) :
                  Cardinality({i \in DOMAIN L : L[i].id = r.id}) = 1
            /\ \A i \in DOMAIN L, j \in DOMAIN L : i < j => L[i].id > L[j].id

\* C19: every association row references a stored route, every rider an
\* association row references is stored, and every stored rider is referenced
\* by an association row.
C19_TriadIsConsistent ==
    /\ \A c \in db.calendar : \E r \in db.routes : r.id = c.route_id
    /\ \A c \in db.calendar : c.link_id # NULL => \E l \in db.links : l.id = c.link_id
    /\ \A l \in db.links : \E c \in db.calendar : c.link_id = l.id

\* C20: a create_route call whose duplicate check cannot read the store fails
\* with a server error and inserts nothing.
C20_FailedDuplicateReadInsertsNothing ==
    \A b \in CreateInputs :
        create_validate(session, b) = NoResponse =>
            LET r == api_create_route(db, session, b, "select")
            IN  /\ r.resp.status >= 500
                /\ r.db = db

====
